---- MODULE Spec2Model ----
(***************************************************************************)
(* OTA update engine of the Iris-Mini firmware: bootloader.main,           *)
(* perform_update, download_file, save/load_local_version and the two      *)
(* control-channel operations, bootloader.check_remote_commands and        *)
(* control_poll.tick, over a flat filesystem.                              *)
(*                                                                         *)
(* Strings whose exact characters matter (version strings, control revs,   *)
(* file contents) are sequences of one-character strings, so that          *)
(* str.strip() is computed and not assumed.  The manifest and the control  *)
(* document are arbitrary and stay as they are for a whole behaviour; a    *)
(* file write is two steps, the truncating open and the write, and the     *)
(* device can lose power between any two steps.                            *)
(*                                                                         *)
(* Spec follows the update engine and the control channel file by file.    *)
(* DeviceSpec follows the device through its boots at a coarser grain:     *)
(* the stager of bootloader.new.py, the connect loop, run_app_main, the    *)
(* application's exception handler and the device identity file.           *)
(***************************************************************************)
EXTENDS Integers, Sequences, FiniteSets, TLC

\* ------------------------------------------------------------------ bounds
MaxStrLen == 1      \* longest version / rev string drawn for the remote documents
MaxFiles == 2       \* longest files[] list of a manifest

\* --------------------------------------------------------------- constants
LOCAL_VERSION_FILE == "local_version.txt"
CONTROL_HASH_FILE == "last_control_hash.txt"
LAST_REBOOT_REV_FILE == "last_control_hash.txt"
APP_FILE == "app_main.py"

\* load_local_version's fallback, and vers_data.get("version", "0.0.0")
DefaultVersion == <<"0", ".", "0", ".", "0">>

Absent == <<"ABSENT">>     \* the file does not exist
Missing == <<"MISSING">>   \* the JSON key is not present
NotAList == <<"NOTALIST">> \* "files" holds a JSON value that is not a list
NotAnObject == <<"NOTANOBJECT">>  \* the JSON document is not an object
BadEntry == "badentry"     \* a files[] element without a "path" key

Chars == {"1", " "}
Strings == UNION {[1..k -> Chars] : k \in 0..MaxStrLen}

Files == {APP_FILE, LOCAL_VERSION_FILE, CONTROL_HASH_FILE}
\* targets a manifest may name: an ordinary file and the local version marker
Targets == {APP_FILE, LOCAL_VERSION_FILE}
\* spec section 3, the protected set; of its members the local version marker
\* is the one a modelled manifest can name
ProtectedSet == {LOCAL_VERSION_FILE}

OldContent == <<"o">>   \* what a file holds before any update
NewContent == <<"n">>   \* what the content host serves for every path
Empty == <<>>           \* a file opened for writing and not (fully) written

\* ---------------------------------------------------------- pure functions
\* str.strip(), as used by load_local_version, _get_last_reboot_rev and tick
RECURSIVE LStrip(_)
LStrip(s) == IF s = <<>> THEN s
             ELSE IF Head(s) = " " THEN LStrip(Tail(s)) ELSE s
RECURSIVE RStrip(_)
RStrip(s) == IF s = <<>> THEN s
             ELSE IF s[Len(s)] = " " THEN RStrip(SubSeq(s, 1, Len(s) - 1)) ELSE s
Strip(s) == RStrip(LStrip(s))

\* the marker returned as stored, without the "0.0.0" of an empty read
load_local_version_raw(f) ==
    IF f[LOCAL_VERSION_FILE] = Absent THEN DefaultVersion
    ELSE f[LOCAL_VERSION_FILE]

\* load_local_version(): the stripped marker, "0.0.0" when absent or empty
load_local_version(f) ==
    IF f[LOCAL_VERSION_FILE] = Absent THEN DefaultVersion
    ELSE IF Strip(f[LOCAL_VERSION_FILE]) # <<>> THEN Strip(f[LOCAL_VERSION_FILE])
    ELSE DefaultVersion

\* vers_data.get("version", "0.0.0")
remote_version(vd) == IF vd.version = Missing THEN DefaultVersion ELSE vd.version

\* the version test taken the wrong way round
UpToDate_inverted(vd, f) == remote_version(vd) # load_local_version(f)

\* vers_data has a get method: response.json() gave a dict, not a list, a
\* string or a number
IsObject(vd) == vd.version # NotAnObject

\* perform_update: "remote_version == local_version", no update needed
UpToDate(vd, f) == remote_version(vd) = load_local_version(f)

\* perform_update: "not isinstance(files, list) or not files"
NoFilesList(vd) == vd.files = NotAList \/ vd.files = <<>>

\* entry.get("target", remote_path); every modelled entry names its target as path
target_path(entry) == entry

\* the loop left one entry early
LoopDone_early(files, i) == i >= Len(files)

\* the for loop of perform_update has run out of entries
LoopDone(files, i) == i > Len(files)

\* _get_last_reboot_rev(): the stripped control marker, "" when unreadable
get_last_reboot_rev(f) ==
    IF f[CONTROL_HASH_FILE] = Absent THEN <<>> ELSE Strip(f[CONTROL_HASH_FILE])

\* ------------------------------------------------------------- input sets
Entries == Targets \cup {BadEntry}
FileLists == UNION {[1..k -> Entries] : k \in 0..MaxFiles} \cup {NotAList}
Manifests ==
    [version : Strings \cup {DefaultVersion, Missing}, files : FileLists]
        \cup {[version |-> NotAnObject, files |-> NotAList]}
ControlDocs == [rev : Strings, reboot : BOOLEAN, force : BOOLEAN]

\* ------------------------------------------------------------------ state
VARIABLES
    fs,           \* the flat filesystem: file name -> content or Absent
    manifest,     \* versions.json on the content host
    control,      \* control.json on the content host
    pc,           \* position of the single thread of control
    vers_data,    \* the manifest as fetched in this boot
    idx,          \* 1-based position of perform_update's for loop
    result,       \* the value perform_update returned
    log,          \* history: the I/O of the engine run in progress, in order
    pre,          \* history: the filesystem when the engine run in progress
                  \* started (the current filesystem outside a run)
    completed,    \* history: version of the last completed update
    bootCause,    \* history: what caused the latest (re)boot
    forcePending, \* history: a force-update command was taken and not yet served
    fired,        \* history: a control action was executed for the control document
    entered       \* history: the branch of main that called run_app_main in this boot

\* the state of the update engine and of the control channel
evars == <<fs, manifest, control, pc, vers_data, idx, result, log, pre,
           completed, bootCause, forcePending, fired, entered>>

None == "none"
NoVersion == <<"NONE">>    \* no update has completed yet
NoData == [version |-> NoVersion, files |-> NotAList]   \* nothing fetched

Ev(op, file) == [op |-> op, file |-> file]

\* ------------------------------------------------- the device's boot cycle
\* The second specification, DeviceSpec, follows one device through its boots
\* under either engine (bootloader.py, or bootloader.new.py with its stager):
\* configuration, Wi-Fi connect loop, manifest fetch, the update as a single
\* step, run_app_main, the application with its control polls, and the
\* device identity file.
MaxConnectPolls == 2   \* passes of connect_wifi's wait loop before its timeout

ENGINE_FILE == "bootloader.py"
STAGED_FILE == "bootloader.py.next"
DEVICE_ID_FILE == "device_id.txt"
DevFiles == {ENGINE_FILE, STAGED_FILE, DEVICE_ID_FILE, LOCAL_VERSION_FILE}

EngineV1 == <<"bootloader.py">>        \* the engine file holds src/bootloader.py
EngineV2 == <<"bootloader.new.py">>    \* the engine file holds src/bootloader.new.py

GeneratedId == <<"UID4">>   \* hexlify(machine.unique_id()).decode().upper()[:4]
FallbackId == <<"0000">>    \* the ID used when deriving one raises
NoId == <<"NOID">>          \* get_or_create_device_id has not returned yet

VARIABLES
    dfs,      \* engine file, staged engine file, device identity file,
              \* local version marker
    dpc,      \* position of the single thread of control
    sta,      \* the station interface is connected
    elapsed,  \* passes of connect_wifi's wait loop made in this boot
    netops,   \* history: the network operations issued in this boot
    dev_id,   \* history: what get_or_create_device_id returned last
    hwid,     \* the ID this device derives from its hardware
    dcause    \* history: what caused the latest (re)boot

dvars == <<dfs, dpc, sta, elapsed, netops, dev_id, hwid, dcause>>

\* ------------------------------------------------- the engine's requests
\* The third specification, RequestSpec, follows what one pass of the engine
\* sends and where it installs: the manifest request of fetch_versions_json,
\* then perform_update's loop body and download_file for one manifest entry
\* whose path has several segments and whose target may be left out.
MaxSegments == 2   \* segments of a path

Segments == {"lib", "foo.py"}
VERSIONS_PATH == <<"versions.json">>
NoToken == ""
Tokens == {NoToken, "t0k"}

\* a path "a/b" is the sequence of its segments <<"a", "b">>
Paths == UNION {[1..n -> Segments] : n \in 1..MaxSegments}

\* the entries of files[]: {"path": p} or {"path": p, "target": t}
RequestEntries == [path : Paths, target : Paths \cup {Missing}]

NoRequest == [url |-> <<>>, headers |-> {}]
NotInstalled == <<>>

VARIABLES
    rtoken,      \* config.GITHUB_TOKEN ("" when none is provisioned)
    rentry,      \* the manifest entry of this pass
    rpc,         \* position of the pass
    rreq,        \* the request issued last: url and the headers argument
    rinstalled,  \* the path download_file wrote the content to
    rdirs        \* the directories ensure_dirs_for asked os.mkdir for

rvars == <<rtoken, rentry, rpc, rreq, rinstalled, rdirs>>

\* ------------------------------------------------- the control poll
\* The fourth specification, PollSpec, follows control_poll.tick call by call
\* under the running application: the rate limit, the link test, the fetch of
\* control.json, the guard, _save_reboot_rev, the read-back and the watchdog.
TicksBits == 3         \* width of the tick counter
CONTROL_POLL_MS == 2   \* the poll interval, in clock steps

\* time.ticks_ms() counts modulo its period and starts at 0 with the boot
TICKS_PERIOD == 2^TicksBits

\* the longest time ticks_diff can measure; tick is called at least that often
MaxSince == (TICKS_PERIOD \div 2) - 1

\* time.ticks_diff(a, b): the signed distance from b to a on the counter
ticks_diff(a, b) ==
    ((a - b + TICKS_PERIOD \div 2) % TICKS_PERIOD) - TICKS_PERIOD \div 2

PollDocs == [rev : Strings, reboot : BOOLEAN]

VARIABLES
    tfs,           \* the files: control marker and version marker
    tdoc,          \* control.json on the content host; reboot: the device is
                   \* listed in reboot_ids
    tlink,         \* sta.active() and sta.isconnected()
    tpc,           \* position: the application between ticks, or inside tick
    tstatus,       \* r.status_code of the latest fetch_control_json, 0 if none
    tnow,          \* time.ticks_ms(), in clock steps
    last_poll_ms,  \* control_poll._last_poll_ms
    tsince,        \* history: clock steps since the latest due tick of this
                   \* boot, MaxSince when there was none
    tcause         \* history: what caused the latest reset

tvars == <<tfs, tdoc, tlink, tpc, tstatus, tnow, last_poll_ms, tsince, tcause>>

\* ------------------------------------------------- the control marker file
\* The fifth specification, MarkerSpec, follows last_control_hash.txt under
\* its two writers, bootloader._save_last_control_hash (an integer hash as
\* decimal text) and control_poll._save_reboot_rev (the rev string), and its
\* reader bootloader._load_last_control_hash.
MaxHash == 11   \* the largest hash saved

Hashes == 0..MaxHash

\* revs a control document may carry, numeric or not
MarkerRevs == {<<>>, <<"1">>, <<"1", "2">>, <<"a">>, <<"v", "2">>, <<" ">>}

VARIABLES
    mfs,      \* the files: control marker and version marker
    mloaded,  \* what the latest _load_last_control_hash gave, since the
              \* latest write
    mlast     \* history: what the latest write left in the control marker

mvars == <<mfs, mloaded, mlast>>

NotLoaded == [kind |-> "unset", val |-> 0]

vars == <<evars, dvars, rvars, tvars, mvars>>

\* the device side while the update engine is followed in detail
DeviceIdle ==
    /\ dfs = [f \in DevFiles |-> Absent]
    /\ dpc = None
    /\ sta = FALSE
    /\ elapsed = 0
    /\ netops = {}
    /\ dev_id = NoId
    /\ hwid = GeneratedId
    /\ dcause = None

\* the requests' side while one of the other two specifications is followed
RequestIdle ==
    /\ rtoken = NoToken
    /\ rentry = [path |-> <<"foo.py">>, target |-> Missing]
    /\ rpc = None
    /\ rreq = NoRequest
    /\ rinstalled = NotInstalled
    /\ rdirs = {}

\* the control poll's side while another specification is followed
PollIdle ==
    /\ tfs = [f \in Files |-> Absent]
    /\ tdoc = [rev |-> <<>>, reboot |-> FALSE]
    /\ tlink = FALSE
    /\ tpc = None
    /\ tstatus = 0
    /\ tnow = 0
    /\ last_poll_ms = 0
    /\ tsince = 0
    /\ tcause = None

\* the marker's side while another specification is followed
MarkerIdle ==
    /\ mfs = [f \in Files |-> Absent]
    /\ mloaded = NotLoaded
    /\ mlast = [kind |-> "none", val |-> 0]

\* the engine side while the boot cycle is followed
EngineIdle ==
    /\ fs = [f \in Files |-> Absent]
    /\ manifest = [version |-> Missing, files |-> NotAList]
    /\ control = [rev |-> <<>>, reboot |-> FALSE, force |-> FALSE]
    /\ pc = None
    /\ vers_data = NoData
    /\ idx = 0
    /\ result = None
    /\ log = <<>>
    /\ pre = fs
    /\ completed = NoVersion
    /\ bootCause = None
    /\ forcePending = FALSE
    /\ fired = FALSE
    /\ entered = None

\* ------------------------------------------------------------------- Init
Init ==
    /\ manifest \in Manifests
    /\ control \in ControlDocs
    /\ \E installed \in {Absent, <<"1">>} :
          /\ fs = [f \in Files |->
                     IF f = LOCAL_VERSION_FILE THEN installed
                     ELSE IF f = CONTROL_HASH_FILE THEN Absent
                     ELSE OldContent]
          /\ completed = IF installed = Absent THEN NoVersion ELSE installed
    /\ pc = "boot"
    /\ vers_data = NoData
    /\ idx = 0
    /\ result = None
    /\ log = <<>>
    /\ pre = fs
    /\ bootCause = "power"
    /\ forcePending = FALSE
    /\ fired = FALSE
    /\ entered = None
    /\ DeviceIdle
    /\ RequestIdle
    /\ PollIdle
    /\ MarkerIdle

\* what a reset of the device does to the volatile state; fs' is set by the caller
Reboot(cause) ==
    /\ pc' = "boot"
    /\ vers_data' = NoData
    /\ idx' = 0
    /\ result' = None
    /\ log' = <<>>
    /\ pre' = fs'
    /\ bootCause' = cause
    /\ entered' = None

\* perform_update returns r to main
Return(r) ==
    /\ pc' = "returned"
    /\ result' = r

\* run_app_main() called from the branch `branch` of main: the engine run is
\* over, main's locals are dead
EnterApp(branch) ==
    /\ pc' = "app"
    /\ entered' = branch
    /\ vers_data' = NoData
    /\ idx' = 0
    /\ result' = None
    /\ log' = <<>>
    /\ pre' = fs'

\* ---------------------------------------------------------------- actions
\* bootloader.main up to the manifest fetch: no Wi-Fi config or a failed
\* connect runs the application directly
MainStart ==
    /\ pc = "boot"
    /\ fs' = fs
    /\ \E haveConfig \in BOOLEAN, connected \in BOOLEAN :
          IF haveConfig /\ connected
          THEN /\ pc' = "fetch"
               /\ UNCHANGED <<vers_data, idx, result, log, pre, entered>>
          ELSE EnterApp("no_wifi")
    /\ UNCHANGED <<manifest, control, completed, bootCause, forcePending, fired>>
    /\ UNCHANGED <<dvars, rvars, tvars, mvars>>

\* a failed manifest fetch treated as fatal: the device resets
FetchVersions_fatal ==
    /\ pc = "fetch"
    /\ fs' = fs
    /\ \E outcome \in {"ok", "http_error", "bad_json", "exception"} :
          IF outcome = "ok"
          THEN /\ vers_data' = manifest
               /\ pc' = "compare"
               /\ log' = Append(log, Ev("fetch", "versions.json"))
               /\ UNCHANGED <<idx, result, pre, entered, bootCause>>
          ELSE Reboot("fetch_failed")
    /\ UNCHANGED <<manifest, control, completed, forcePending, fired>>
    /\ UNCHANGED <<dvars, rvars, tvars, mvars>>

\* fetch_versions_json and main's test of its result
FetchVersions ==
    /\ pc = "fetch"
    /\ fs' = fs
    /\ \E outcome \in {"ok", "http_error", "bad_json", "exception"} :
          IF outcome = "ok"
          THEN /\ vers_data' = manifest
               /\ pc' = "compare"
               /\ log' = Append(log, Ev("fetch", "versions.json"))
               /\ UNCHANGED <<idx, result, pre, entered>>
          ELSE EnterApp("no_manifest")
    /\ UNCHANGED <<manifest, control, completed, bootCause, forcePending, fired>>
    /\ UNCHANGED <<dvars, rvars, tvars, mvars>>

\* perform_update reporting success for a manifest without a files list
CompareVersions_no_files_ok ==
    /\ pc = "compare"
    /\ IF ~IsObject(vers_data)
       THEN /\ pc' = "raised"
            /\ UNCHANGED <<idx, result>>
       ELSE IF UpToDate(vers_data, fs) \/ NoFilesList(vers_data)
       THEN Return("true") /\ idx' = idx
       ELSE /\ pc' = "entry"
            /\ idx' = 1
            /\ result' = result
    /\ UNCHANGED <<fs, manifest, control, vers_data, log, pre, completed,
                   bootCause, forcePending, fired, entered>>
    /\ UNCHANGED <<dvars, rvars, tvars, mvars>>

\* perform_update up to the for loop; vers_data.get raises AttributeError on
\* a document that is not an object, and nothing in perform_update or main
\* catches it
CompareVersions ==
    /\ pc = "compare"
    /\ IF ~IsObject(vers_data)
       THEN /\ pc' = "raised"
            /\ UNCHANGED <<idx, result>>
       ELSE IF UpToDate(vers_data, fs)
       THEN Return("true") /\ idx' = idx
       ELSE IF NoFilesList(vers_data)
       THEN Return("false") /\ idx' = idx
       ELSE /\ pc' = "entry"
            /\ idx' = 1
            /\ result' = result
    /\ UNCHANGED <<fs, manifest, control, vers_data, log, pre, completed,
                   bootCause, forcePending, fired, entered>>
    /\ UNCHANGED <<dvars, rvars, tvars, mvars>>

\* the for loop going on to the next entry after a failed one
NextEntry_continues ==
    /\ pc = "entry"
    /\ IF LoopDone(vers_data.files, idx)
       THEN /\ pc' = "save"
            /\ UNCHANGED <<result, log, idx>>
       ELSE IF vers_data.files[idx] = BadEntry
       THEN /\ pc' = "entry"
            /\ idx' = idx + 1
            /\ result' = result
            /\ log' = Append(log, Ev("fail", BadEntry))
       ELSE \E status \in {"200", "non200", "exception"} :
              IF status = "200"
              THEN /\ pc' = "dl_open"
                   /\ UNCHANGED <<result, idx>>
                   /\ log' = Append(log, Ev("get", target_path(vers_data.files[idx])))
              ELSE /\ pc' = "entry"
                   /\ idx' = idx + 1
                   /\ result' = result
                   /\ log' = log \o <<Ev("get", target_path(vers_data.files[idx])),
                                      Ev("fail", target_path(vers_data.files[idx]))>>
    /\ UNCHANGED <<fs, manifest, control, vers_data, pre, completed,
                   bootCause, forcePending, fired, entered>>
    /\ UNCHANGED <<dvars, rvars, tvars, mvars>>

\* one iteration of the for loop up to the HTTP response of download_file,
\* or the end of the loop
NextEntry ==
    /\ pc = "entry"
    /\ IF LoopDone(vers_data.files, idx)
       THEN /\ pc' = "save"
            /\ UNCHANGED <<result, log>>
       ELSE IF vers_data.files[idx] = BadEntry
       THEN /\ Return("false")
            /\ log' = Append(log, Ev("fail", BadEntry))
       ELSE \E status \in {"200", "non200", "exception"} :
              IF status = "200"
              THEN /\ pc' = "dl_open"
                   /\ result' = result
                   /\ log' = Append(log, Ev("get", target_path(vers_data.files[idx])))
              ELSE /\ Return("false")
                   /\ log' = log \o <<Ev("get", target_path(vers_data.files[idx])),
                                      Ev("fail", target_path(vers_data.files[idx]))>>
    /\ UNCHANGED <<fs, manifest, control, vers_data, idx, pre, completed,
                   bootCause, forcePending, fired, entered>>
    /\ UNCHANGED <<dvars, rvars, tvars, mvars>>

\* download_file: open(target_path, "wb") truncates the target
DownloadOpen ==
    /\ pc = "dl_open"
    /\ fs' = [fs EXCEPT ![target_path(vers_data.files[idx])] = Empty]
    /\ log' = Append(log, Ev("open", target_path(vers_data.files[idx])))
    /\ pc' = "dl_write"
    /\ UNCHANGED <<manifest, control, vers_data, idx, result, pre, completed,
                   bootCause, forcePending, fired, entered>>
    /\ UNCHANGED <<dvars, rvars, tvars, mvars>>

\* download_file: f.write(content); an exception leaves the truncated file
DownloadWrite ==
    /\ pc = "dl_write"
    /\ \E written \in BOOLEAN :
          IF written
          THEN /\ fs' = [fs EXCEPT ![target_path(vers_data.files[idx])] = NewContent]
               /\ log' = Append(log, Ev("write", target_path(vers_data.files[idx])))
               /\ idx' = idx + 1
               /\ pc' = "entry"
               /\ result' = result
          ELSE /\ fs' = fs
               /\ log' = Append(log, Ev("fail", target_path(vers_data.files[idx])))
               /\ idx' = idx
               /\ Return("false")
    /\ UNCHANGED <<manifest, control, vers_data, pre, completed,
                   bootCause, forcePending, fired, entered>>
    /\ UNCHANGED <<dvars, rvars, tvars, mvars>>

\* save_local_version: open(LOCAL_VERSION_FILE, "w") truncates the marker;
\* an OSError at the open is printed and the reset follows
SaveOpen ==
    /\ pc = "save"
    /\ \E opened \in BOOLEAN :
          IF opened
          THEN /\ fs' = [fs EXCEPT ![LOCAL_VERSION_FILE] = Empty]
               /\ log' = Append(log, Ev("save_open", LOCAL_VERSION_FILE))
               /\ pc' = "save_write"
          ELSE /\ fs' = fs
               /\ log' = log
               /\ pc' = "reset"
    /\ UNCHANGED <<manifest, control, vers_data, idx, result, pre, completed,
                   bootCause, forcePending, fired, entered>>
    /\ UNCHANGED <<dvars, rvars, tvars, mvars>>

\* save_local_version: f.write(version_str); an OSError is printed
SaveWrite ==
    /\ pc = "save_write"
    /\ \E written \in BOOLEAN :
          IF written
          THEN /\ fs' = [fs EXCEPT ![LOCAL_VERSION_FILE] = remote_version(vers_data)]
               /\ log' = Append(log, Ev("save_write", LOCAL_VERSION_FILE))
               /\ completed' = remote_version(vers_data)
               /\ forcePending' = FALSE
          ELSE UNCHANGED <<fs, log, completed, forcePending>>
    /\ pc' = "reset"
    /\ UNCHANGED <<manifest, control, vers_data, idx, result, pre,
                   bootCause, fired, entered>>
    /\ UNCHANGED <<dvars, rvars, tvars, mvars>>

\* the version write of save_local_version went through
Saved(l) == l # <<>> /\ l[Len(l)].op = "save_write"

\* perform_update coming back to main after the save instead of resetting
UpdateReset_returns ==
    /\ pc = "reset"
    /\ fs' = fs
    /\ Return("true")
    /\ UNCHANGED <<manifest, control, vers_data, idx, log, pre, completed,
                   bootCause, forcePending, fired, entered>>
    /\ UNCHANGED <<dvars, rvars, tvars, mvars>>

\* perform_update: machine.reset() after save_local_version
UpdateReset ==
    /\ pc = "reset"
    /\ fs' = fs
    /\ Reboot(IF Saved(log) THEN "update" ELSE "update_unsaved")
    /\ UNCHANGED <<manifest, control, completed, forcePending, fired>>
    /\ UNCHANGED <<dvars, rvars, tvars, mvars>>

\* main: run_app_main() after perform_update returned, whatever it returned
RunAppMain ==
    /\ pc = "returned"
    /\ fs' = fs
    /\ EnterApp("returned")
    /\ UNCHANGED <<manifest, control, completed, bootCause, forcePending, fired>>
    /\ UNCHANGED <<dvars, rvars, tvars, mvars>>

\* check_remote_commands with the force-update test ahead of the reboot test
check_remote_commands_force_first ==
    /\ pc = "app"
    /\ \E fetched \in BOOLEAN :
          IF ~fetched
          THEN UNCHANGED evars
          ELSE IF control.force
          THEN /\ fs' = [fs EXCEPT ![LOCAL_VERSION_FILE] = Absent]
               /\ Reboot("force_update")
               /\ fired' = TRUE
               /\ forcePending' = TRUE
               /\ UNCHANGED <<manifest, control, completed>>
          ELSE IF control.reboot
          THEN /\ fs' = fs
               /\ Reboot("remote_reboot")
               /\ fired' = TRUE
               /\ UNCHANGED <<manifest, control, completed, forcePending>>
          ELSE UNCHANGED evars
    /\ UNCHANGED <<dvars, rvars, tvars, mvars>>

\* bootloader.check_remote_commands, which the application's main loop calls
\* periodically (app_main.py names the module bootloader without importing
\* it; the operation is modelled as invoked). The device identity file is
\* taken to exist. machine.reset() does not return, so a device listed in
\* reboot_ids never reaches the force-update branch.
check_remote_commands ==
    /\ pc = "app"
    /\ \E fetched \in BOOLEAN :
          IF ~fetched
          THEN UNCHANGED evars
          ELSE IF control.reboot
          THEN /\ fs' = fs
               /\ Reboot("remote_reboot")
               /\ fired' = TRUE
               /\ UNCHANGED <<manifest, control, completed, forcePending>>
          ELSE IF control.force
          THEN /\ fs' = [fs EXCEPT ![LOCAL_VERSION_FILE] = Absent]
               /\ Reboot("force_update")
               /\ fired' = TRUE
               /\ forcePending' = TRUE
               /\ UNCHANGED <<manifest, control, completed>>
          ELSE UNCHANGED evars
    /\ UNCHANGED <<dvars, rvars, tvars, mvars>>

\* how far control_poll._save_reboot_rev gets before an exception ends it
SaveOutcomes == {"saved", "open1_failed", "write1_failed", "open2_failed", "write2_failed"}

\* control_poll._save_reboot_rev(rev): the control marker, then the version marker
save_reboot_rev(f, rev, outcome) ==
    [x \in Files |->
        IF x = LAST_REBOOT_REV_FILE
        THEN IF outcome = "open1_failed" THEN f[x]
             ELSE IF outcome = "write1_failed" THEN Empty
             ELSE Strip(rev)
        ELSE IF x = LOCAL_VERSION_FILE
        THEN IF outcome = "saved" THEN Strip(rev)
             ELSE IF outcome = "write2_failed" THEN Empty
             ELSE f[x]
        ELSE f[x]]

\* control_poll.tick when the poll is due: a device listed in reboot_ids under
\* a new non-empty rev saves the rev and, if the control marker reads back as
\* the rev, waits for the watchdog to reset it
tick ==
    /\ pc = "app"
    /\ \E connected \in BOOLEAN, fetched \in BOOLEAN :
          IF ~(connected /\ fetched)
          THEN UNCHANGED evars
          ELSE IF control.reboot /\ Strip(control.rev) # <<>>
                  /\ Strip(control.rev) # get_last_reboot_rev(fs)
          THEN \E outcome \in SaveOutcomes :
                 /\ fs' = save_reboot_rev(fs, Strip(control.rev), outcome)
                 /\ IF get_last_reboot_rev(fs') = Strip(control.rev)
                    THEN /\ Reboot("poll_reboot")
                         /\ fired' = TRUE
                    ELSE /\ pre' = fs'
                         /\ UNCHANGED <<pc, vers_data, idx, result, log, bootCause,
                                        fired, entered>>
                 /\ UNCHANGED <<manifest, control, completed, forcePending>>
          ELSE UNCHANGED evars
    /\ UNCHANGED <<dvars, rvars, tvars, mvars>>

\* power loss or a watchdog reset at any point
Crash ==
    /\ pc # "boot"
    /\ fs' = fs
    /\ Reboot("power")
    /\ UNCHANGED <<manifest, control, completed, forcePending, fired>>
    /\ UNCHANGED <<dvars, rvars, tvars, mvars>>

Next ==
    \/ MainStart
    \/ FetchVersions
    \/ CompareVersions
    \/ NextEntry
    \/ DownloadOpen
    \/ DownloadWrite
    \/ SaveOpen
    \/ SaveWrite
    \/ UpdateReset
    \/ RunAppMain
    \/ check_remote_commands
    \/ tick
    \/ Crash

Spec == Init /\ [][Next]_vars

TypeOK ==
    /\ pc \in {"boot", "fetch", "compare", "entry", "dl_open", "dl_write",
               "save", "save_write", "reset", "returned", "app", "raised"}
    /\ fired \in BOOLEAN
    /\ idx \in 0..(MaxFiles + 1)

\* ------------------------------------------------ boot cycle: actions
DeviceInit ==
    /\ dfs \in [DevFiles -> Strings \cup {Absent, EngineV1, EngineV2}]
    /\ dfs[ENGINE_FILE] \in {EngineV1, EngineV2}
    /\ dfs[STAGED_FILE] \in {Absent, EngineV1, EngineV2}
    /\ dfs[DEVICE_ID_FILE] \in Strings \cup {Absent}
    /\ dfs[LOCAL_VERSION_FILE] \in {Absent, <<"1">>}
    /\ hwid \in {GeneratedId, FallbackId}
    /\ dpc = "boot"
    /\ sta = FALSE
    /\ elapsed = 0
    /\ netops = {}
    /\ dev_id = NoId
    /\ dcause = "power"
    /\ EngineIdle
    /\ RequestIdle
    /\ PollIdle
    /\ MarkerIdle

\* machine.reset(): the volatile state of the device is gone; dfs' is set by
\* the caller
DevReboot(cause) ==
    /\ dpc' = "boot"
    /\ sta' = FALSE
    /\ elapsed' = 0
    /\ netops' = {}
    /\ dcause' = cause

\* the stager copying the staged engine into place and leaving the staged
\* file where it is
apply_staged_bootloader_copies ==
    /\ dpc = "boot"
    /\ dfs[ENGINE_FILE] = EngineV2
    /\ IF dfs[STAGED_FILE] # Absent
       THEN /\ dfs' = [dfs EXCEPT ![ENGINE_FILE] = dfs[STAGED_FILE]]
            /\ DevReboot("stager")
       ELSE /\ dpc' = "config"
            /\ UNCHANGED <<dfs, sta, elapsed, netops, dcause>>
    /\ UNCHANGED <<dev_id, hwid>>
    /\ UNCHANGED <<evars, rvars, tvars, mvars>>

\* bootloader.new.py, main's first statement: a staged engine is renamed over
\* the engine file and the device resets
apply_staged_bootloader_if_present ==
    /\ dpc = "boot"
    /\ dfs[ENGINE_FILE] = EngineV2
    /\ IF dfs[STAGED_FILE] # Absent
       THEN /\ dfs' = [dfs EXCEPT ![ENGINE_FILE] = dfs[STAGED_FILE],
                                  ![STAGED_FILE] = Absent]
            /\ DevReboot("stager")
       ELSE /\ dpc' = "config"
            /\ UNCHANGED <<dfs, sta, elapsed, netops, dcause>>
    /\ UNCHANGED <<dev_id, hwid>>
    /\ UNCHANGED <<evars, rvars, tvars, mvars>>

\* bootloader.py, main's first statements: display and logo, then the
\* configuration; the directory is not looked at
MainBoot ==
    /\ dpc = "boot"
    /\ dfs[ENGINE_FILE] = EngineV1
    /\ dpc' = "config"
    /\ UNCHANGED <<dfs, sta, elapsed, netops, dev_id, hwid, dcause>>
    /\ UNCHANGED <<evars, rvars, tvars, mvars>>

\* main's test of the Wi-Fi configuration: bootloader.py runs the application
\* without one, bootloader.new.py opens the configuration portal when
\* config.py is missing and lets connect_wifi fail on an empty SSID
load_config_wifi ==
    /\ dpc = "config"
    /\ \E config \in {"missing", "no_ssid", "ok"} :
          dpc' = IF config = "ok" THEN "connect"
                 ELSE IF config = "missing" /\ dfs[ENGINE_FILE] = EngineV2 THEN "portal"
                 ELSE "run"
    /\ UNCHANGED <<dfs, sta, elapsed, netops, dev_id, hwid, dcause>>
    /\ UNCHANGED <<evars, rvars, tvars, mvars>>

\* run_config_portal: serves the form until a configuration is saved, then resets
run_config_portal ==
    /\ dpc = "portal"
    /\ dfs' = dfs
    /\ DevReboot("portal")
    /\ UNCHANGED <<dev_id, hwid>>
    /\ UNCHANGED <<evars, rvars, tvars, mvars>>

\* connect_wifi that goes on to the fetch when its wait timed out
connect_wifi_ignores_timeout ==
    /\ dpc = "connect"
    /\ \E isconnected \in BOOLEAN :
          IF isconnected
          THEN /\ sta' = TRUE
               /\ dpc' = "fetch"
               /\ elapsed' = elapsed
          ELSE IF elapsed >= MaxConnectPolls
          THEN /\ sta' = FALSE
               /\ dpc' = "fetch"
               /\ elapsed' = elapsed
          ELSE /\ elapsed' = elapsed + 1
               /\ UNCHANGED <<sta, dpc>>
    /\ UNCHANGED <<dfs, netops, dev_id, hwid, dcause>>
    /\ UNCHANGED <<evars, rvars, tvars, mvars>>

\* connect_wifi, one pass of its wait loop: connected, timed out (main then
\* calls run_app_main), or another pass
connect_wifi ==
    /\ dpc = "connect"
    /\ \E isconnected \in BOOLEAN :
          IF isconnected
          THEN /\ sta' = TRUE
               /\ dpc' = "fetch"
               /\ elapsed' = elapsed
          ELSE IF elapsed >= MaxConnectPolls
          THEN /\ sta' = FALSE
               /\ dpc' = "run"
               /\ elapsed' = elapsed
          ELSE /\ elapsed' = elapsed + 1
               /\ UNCHANGED <<sta, dpc>>
    /\ UNCHANGED <<dfs, netops, dev_id, hwid, dcause>>
    /\ UNCHANGED <<evars, rvars, tvars, mvars>>

\* fetch_versions_json (requests.get with timeout=15) and main's test of its
\* result
fetch_versions_json ==
    /\ dpc = "fetch"
    /\ netops' = netops \cup {"manifest"}
    /\ \E fetched \in BOOLEAN : dpc' = IF fetched THEN "update" ELSE "run"
    /\ UNCHANGED <<dfs, sta, elapsed, dev_id, hwid, dcause>>
    /\ UNCHANGED <<evars, rvars, tvars, mvars>>

\* perform_update as one step. bootloader.py: nothing to do, a failed entry,
\* a completed update (which may have put a file under the staged engine's
\* name or over the engine file itself), a download whose requests.get,
\* called without a timeout, never returns, or the AttributeError of a
\* manifest that is not an object, which ends main. bootloader.new.py: a stub.
perform_update ==
    /\ dpc = "update"
    /\ IF dfs[ENGINE_FILE] = EngineV2
       THEN /\ dpc' = "run"
            /\ UNCHANGED <<dfs, sta, elapsed, netops, dcause>>
       ELSE \E outcome \in {"up_to_date", "failed", "updated", "staged",
                            "engine_replaced", "stalled", "raised"} :
              IF outcome = "raised"
              THEN /\ dpc' = "halted"
                   /\ UNCHANGED <<dfs, sta, elapsed, netops, dcause>>
              ELSE IF outcome = "up_to_date"
              THEN /\ dpc' = "run"
                   /\ UNCHANGED <<dfs, sta, elapsed, netops, dcause>>
              ELSE IF outcome = "failed"
              THEN /\ dpc' = "run"
                   /\ netops' = netops \cup {"download"}
                   /\ UNCHANGED <<dfs, sta, elapsed, dcause>>
              ELSE IF outcome = "stalled"
              THEN /\ dpc' = "stalled"
                   /\ netops' = netops \cup {"download"}
                   /\ UNCHANGED <<dfs, sta, elapsed, dcause>>
              ELSE /\ dfs' = IF outcome = "staged"
                             THEN [dfs EXCEPT ![STAGED_FILE] = EngineV2,
                                              ![LOCAL_VERSION_FILE] = <<"1">>]
                             ELSE IF outcome = "engine_replaced"
                             THEN [dfs EXCEPT ![ENGINE_FILE] = EngineV2,
                                              ![LOCAL_VERSION_FILE] = <<"1">>]
                             ELSE [dfs EXCEPT ![LOCAL_VERSION_FILE] = <<"1">>]
                   /\ DevReboot("update")
    /\ UNCHANGED <<dev_id, hwid>>
    /\ UNCHANGED <<evars, rvars, tvars, mvars>>

\* run_app_main. bootloader.py returns to main, and main to the prompt, when
\* app_main cannot be imported or has no main(); bootloader.new.py resets on
\* any exception of the import or of the call app_main.main(lcd)
run_app_main ==
    /\ dpc = "run"
    /\ dfs' = dfs
    /\ \E outcome \in {"ok", "import_error", "no_main"} :
          IF outcome = "ok"
          THEN /\ dpc' = "app"
               /\ UNCHANGED <<sta, elapsed, netops, dcause>>
          ELSE IF dfs[ENGINE_FILE] = EngineV2
          THEN DevReboot("app_crash")
          ELSE /\ dpc' = "halted"
               /\ UNCHANGED <<sta, elapsed, netops, dcause>>
    /\ UNCHANGED <<dev_id, hwid>>
    /\ UNCHANGED <<evars, rvars, tvars, mvars>>

\* the station link comes up (the application connects on its own) or drops
LinkChange ==
    /\ dpc = "app"
    /\ sta' = ~sta
    /\ UNCHANGED <<dfs, dpc, elapsed, netops, dev_id, hwid, dcause>>
    /\ UNCHANGED <<evars, rvars, tvars, mvars>>

\* app_main.main: an exception of _main_impl reaches main's handler
AppException ==
    /\ dpc = "app"
    /\ dpc' = "app_error"
    /\ UNCHANGED <<dfs, sta, elapsed, netops, dev_id, hwid, dcause>>
    /\ UNCHANGED <<evars, rvars, tvars, mvars>>

\* the handler coming back to run_app_main without a reset
AppErrorReset_returns ==
    /\ dpc = "app_error"
    /\ dpc' = "halted"
    /\ UNCHANGED <<dfs, sta, elapsed, netops, dev_id, hwid, dcause>>
    /\ UNCHANGED <<evars, rvars, tvars, mvars>>

\* app_main.main's handler: the error screen, then machine.reset()
AppErrorReset ==
    /\ dpc = "app_error"
    /\ dfs' = dfs
    /\ DevReboot("app_crash")
    /\ UNCHANGED <<dev_id, hwid>>
    /\ UNCHANGED <<evars, rvars, tvars, mvars>>

\* the identity file holds an ID: something is left of it after strip()
HasId(f) == f[DEVICE_ID_FILE] # Absent /\ Strip(f[DEVICE_ID_FILE]) # <<>>

\* get_or_create_device_id writing a fresh ID whatever the file holds
get_or_create_device_id_regenerates ==
    /\ dpc = "app"
    /\ dpc' = "id_open"
    /\ UNCHANGED <<dfs, sta, elapsed, netops, dev_id, hwid, dcause>>
    /\ UNCHANGED <<evars, rvars, tvars, mvars>>

\* get_or_create_device_id, called first thing by check_remote_commands: the
\* stripped content of the identity file if there is any, else on to writing
\* a derived ID
get_or_create_device_id ==
    /\ dpc = "app"
    /\ IF HasId(dfs)
       THEN /\ dev_id' = Strip(dfs[DEVICE_ID_FILE])
            /\ dpc' = "cmd_fetch"
       ELSE /\ dev_id' = dev_id
            /\ dpc' = "id_open"
    /\ UNCHANGED <<dfs, sta, elapsed, netops, hwid, dcause>>
    /\ UNCHANGED <<evars, rvars, tvars, mvars>>

\* get_or_create_device_id letting the OSError of the open out: the exception
\* reaches app_main.main's handler
IdOpen_fatal ==
    /\ dpc = "id_open"
    /\ \E opened \in BOOLEAN :
          IF opened
          THEN /\ dfs' = [dfs EXCEPT ![DEVICE_ID_FILE] = Empty]
               /\ dpc' = "id_write"
          ELSE /\ dfs' = dfs
               /\ dpc' = "app_error"
    /\ UNCHANGED <<sta, elapsed, netops, dev_id, hwid, dcause>>
    /\ UNCHANGED <<evars, rvars, tvars, mvars>>

\* get_or_create_device_id: open(DEVICE_ID_FILE, "w") truncates or creates
\* the file; an OSError is printed and the derived ID returned
IdOpen ==
    /\ dpc = "id_open"
    /\ \E opened \in BOOLEAN :
          IF opened
          THEN /\ dfs' = [dfs EXCEPT ![DEVICE_ID_FILE] = Empty]
               /\ dpc' = "id_write"
               /\ dev_id' = dev_id
          ELSE /\ dfs' = dfs
               /\ dpc' = "cmd_fetch"
               /\ dev_id' = hwid
    /\ UNCHANGED <<sta, elapsed, netops, hwid, dcause>>
    /\ UNCHANGED <<evars, rvars, tvars, mvars>>

\* get_or_create_device_id: f.write(dev_id), and the return of the derived ID
IdWrite ==
    /\ dpc = "id_write"
    /\ \E written \in BOOLEAN :
          dfs' = IF written THEN [dfs EXCEPT ![DEVICE_ID_FILE] = hwid] ELSE dfs
    /\ dev_id' = hwid
    /\ dpc' = "cmd_fetch"
    /\ UNCHANGED <<sta, elapsed, netops, hwid, dcause>>
    /\ UNCHANGED <<evars, rvars, tvars, mvars>>

\* check_remote_commands returning from a failed fetch by way of the reset
ControlReturn_resets ==
    /\ dpc = "cmd_failed"
    /\ dfs' = dfs
    /\ DevReboot("remote")
    /\ UNCHANGED <<dev_id, hwid>>
    /\ UNCHANGED <<evars, rvars, tvars, mvars>>

\* check_remote_commands after the ID: the request for control.json, issued
\* whatever the link. A status other than 200, an exception of requests.get
\* and a body that r.json() cannot parse all end the call
ControlFetch ==
    /\ dpc = "cmd_fetch"
    /\ netops' = netops \cup {"control"}
    /\ \E outcome \in {"ok", "bad_status", "raised", "bad_json"} :
          dpc' = IF outcome = "ok" THEN "cmd_data" ELSE "cmd_failed"
    /\ UNCHANGED <<dfs, sta, elapsed, dev_id, hwid, dcause>>
    /\ UNCHANGED <<evars, rvars, tvars, mvars>>

\* check_remote_commands: the return after "status != 200" and the one in the
\* handler of "except Exception"
ControlReturn ==
    /\ dpc = "cmd_failed"
    /\ dpc' = "app"
    /\ UNCHANGED <<dfs, sta, elapsed, netops, dev_id, hwid, dcause>>
    /\ UNCHANGED <<evars, rvars, tvars, mvars>>

\* check_remote_commands with the document in hand: a device listed in
\* reboot_ids resets; one listed in force_update_ids only removes the version
\* marker and resets
ControlCommand ==
    /\ dpc = "cmd_data"
    /\ \E command \in {"none", "reboot", "force"} :
          IF command = "none"
          THEN /\ dpc' = "app"
               /\ UNCHANGED <<dfs, sta, elapsed, netops, dcause>>
          ELSE IF command = "reboot"
          THEN /\ dfs' = dfs
               /\ DevReboot("remote")
          ELSE /\ dfs' = [dfs EXCEPT ![LOCAL_VERSION_FILE] = Absent]
               /\ DevReboot("force")
    /\ UNCHANGED <<dev_id, hwid>>
    /\ UNCHANGED <<evars, rvars, tvars, mvars>>

\* control_poll.tick when the poll is due: nothing without a connected
\* station, else the control fetch and the reboot it may lead to
PollTick ==
    /\ dpc = "app"
    /\ dfs' = dfs
    /\ IF ~sta
       THEN UNCHANGED <<dpc, sta, elapsed, netops, dcause>>
       ELSE \E outcome \in {"failed", "no_command", "reset"} :
              IF outcome = "reset"
              THEN DevReboot("poll")
              ELSE /\ netops' = netops \cup {"control"}
                   /\ UNCHANGED <<dpc, sta, elapsed, dcause>>
    /\ UNCHANGED <<dev_id, hwid>>
    /\ UNCHANGED <<evars, rvars, tvars, mvars>>

\* everything the code can do next; there is no watchdog in either engine
DevProgramNext ==
    \/ apply_staged_bootloader_if_present
    \/ MainBoot
    \/ load_config_wifi
    \/ run_config_portal
    \/ connect_wifi
    \/ fetch_versions_json
    \/ perform_update
    \/ run_app_main
    \/ LinkChange
    \/ AppException
    \/ AppErrorReset
    \/ get_or_create_device_id
    \/ IdOpen
    \/ IdWrite
    \/ ControlFetch
    \/ ControlReturn
    \/ ControlCommand
    \/ PollTick

\* the power is cut and restored
DevPowerLoss ==
    /\ dpc # "boot"
    /\ dfs' = dfs
    /\ DevReboot("power")
    /\ UNCHANGED <<dev_id, hwid>>
    /\ UNCHANGED <<evars, rvars, tvars, mvars>>

DeviceNext ==
    \/ apply_staged_bootloader_if_present
    \/ MainBoot
    \/ load_config_wifi
    \/ run_config_portal
    \/ connect_wifi
    \/ fetch_versions_json
    \/ perform_update
    \/ run_app_main
    \/ LinkChange
    \/ AppException
    \/ AppErrorReset
    \/ get_or_create_device_id
    \/ IdOpen
    \/ IdWrite
    \/ ControlFetch
    \/ ControlReturn
    \/ ControlCommand
    \/ PollTick
    \/ DevPowerLoss

DeviceSpec == DeviceInit /\ [][DeviceNext]_vars

\* ------------------------------------------------ requests: actions
\* entry.get("target", remote_path) with remote_path = entry["path"]
entry_target(entry) == IF entry.target = Missing THEN entry.path ELSE entry.target

\* the directories ensure_dirs_for(target) passes to os.mkdir: every proper
\* prefix of the target, shortest first
ensure_dirs_for(target) == {SubSeq(target, 1, k) : k \in 1..(Len(target) - 1)}

\* the Authorization header both functions build: "token " + the token
AuthHeader(token) == <<"Authorization", "token", token>>

\* the value of a Python function that falls off its end
NoneValue == {<<"None">>}

\* get_github_headers(): fills a dict with the Authorization header when
\* config has a token, and ends without a return statement
get_github_headers(token) == NoneValue

\* the headers dict fetch_versions_json builds itself
versions_headers(token) == IF token # NoToken THEN {AuthHeader(token)} ELSE {}

\* what requests.get puts on the wire for a headers argument
SentHeaders(headers) == IF headers = NoneValue THEN {} ELSE headers

RequestInit ==
    /\ rtoken \in Tokens
    /\ rentry \in RequestEntries
    /\ rpc = "fetch"
    /\ rreq = NoRequest
    /\ rinstalled = NotInstalled
    /\ rdirs = {}
    /\ EngineIdle
    /\ DeviceIdle
    /\ PollIdle
    /\ MarkerIdle

\* fetch_versions_json: requests.get(VERSIONS_URL, headers=headers, timeout=15)
versions_request ==
    /\ rpc = "fetch"
    /\ rreq' = [url |-> VERSIONS_PATH, headers |-> versions_headers(rtoken)]
    /\ \E fetched \in BOOLEAN : rpc' = IF fetched THEN "entry" ELSE "done"
    /\ UNCHANGED <<rtoken, rentry, rinstalled, rdirs>>
    /\ UNCHANGED <<evars, dvars, tvars, mvars>>

\* perform_update's loop body for the entry and download_file: the request
\* for RAW_BASE_URL + remote_path with get_github_headers() as headers, and
\* on status 200 ensure_dirs_for(target_path) and the write to target_path.
\* requests.get may raise before anything is sent (no link, or a urequests
\* that does not take headers=None); download_file catches it
download_file ==
    /\ rpc = "entry"
    /\ \E outcome \in {"ok", "bad_status", "raised"} :
          IF outcome = "raised"
          THEN UNCHANGED <<rreq, rinstalled, rdirs>>
          ELSE /\ rreq' = [url |-> rentry.path,
                           headers |-> get_github_headers(rtoken)]
               /\ IF outcome = "ok"
                  THEN /\ rdirs' = rdirs \cup ensure_dirs_for(entry_target(rentry))
                       /\ rinstalled' = entry_target(rentry)
                  ELSE UNCHANGED <<rinstalled, rdirs>>
    /\ rpc' = "done"
    /\ UNCHANGED <<rtoken, rentry>>
    /\ UNCHANGED <<evars, dvars, tvars, mvars>>

RequestNext ==
    \/ versions_request
    \/ download_file

RequestSpec == RequestInit /\ [][RequestNext]_vars

\* ------------------------------------------------ control poll: actions
PollInit ==
    /\ tdoc \in PollDocs
    /\ tfs \in [Files -> {Absent, <<"1">>, OldContent}]
    /\ tfs[CONTROL_HASH_FILE] \in {Absent, <<"1">>}
    /\ tfs[LOCAL_VERSION_FILE] \in {Absent, <<"1">>}
    /\ tfs[APP_FILE] = OldContent
    /\ tlink \in BOOLEAN
    /\ tpc = "app"
    /\ tstatus = 0
    /\ tnow = 1
    /\ last_poll_ms = 0
    /\ tsince = MaxSince
    /\ tcause = "power"
    /\ EngineIdle
    /\ DeviceIdle
    /\ RequestIdle
    /\ MarkerIdle

\* a reset: the module state and the clock start over, the link is down
PollReboot(cause) ==
    /\ tpc' = "boot"
    /\ tlink' = FALSE
    /\ tstatus' = 0
    /\ tnow' = 0
    /\ last_poll_ms' = 0
    /\ tsince' = MaxSince
    /\ tcause' = cause

\* tick's test "_last_poll_ms != 0 and ticks_diff(now, _last_poll_ms) < CONTROL_POLL_MS"
RateLimited(now, last) == last # 0 /\ ticks_diff(now, last) < CONTROL_POLL_MS

\* tick taking up the poll without testing the station interface
tick_start_offline ==
    /\ tpc = "app"
    /\ ~RateLimited(tnow, last_poll_ms)
    /\ last_poll_ms' = tnow
    /\ tsince' = 0
    /\ tpc' = "fetch"
    /\ UNCHANGED <<tfs, tdoc, tlink, tstatus, tnow, tcause>>
    /\ UNCHANGED <<evars, dvars, rvars, mvars>>

\* tick up to the fetch: nothing inside the poll interval; else the poll time
\* is recorded, and tick returns unless the station is active and connected
tick_start ==
    /\ tpc = "app"
    /\ ~RateLimited(tnow, last_poll_ms)
    /\ last_poll_ms' = tnow
    /\ tsince' = 0
    /\ tpc' = IF tlink THEN "fetch" ELSE "app"
    /\ UNCHANGED <<tfs, tdoc, tlink, tstatus, tnow, tcause>>
    /\ UNCHANGED <<evars, dvars, rvars, mvars>>

\* fetch_control_json and tick's guard: no data unless the status is 200;
\* the rev is saved only for a device listed in reboot_ids under a non-empty
\* rev other than the stored one
tick_fetch ==
    /\ tpc = "fetch"
    /\ \E status \in {0, 200, 404} :
          /\ tstatus' = status
          /\ tpc' = IF status = 200 /\ tdoc.reboot /\ Strip(tdoc.rev) # <<>>
                        /\ Strip(tdoc.rev) # get_last_reboot_rev(tfs)
                     THEN "save" ELSE "app"
    /\ UNCHANGED <<tfs, tdoc, tlink, tnow, last_poll_ms, tsince, tcause>>
    /\ UNCHANGED <<evars, dvars, rvars, mvars>>

\* _save_reboot_rev(remote_rev) and the read-back: the watchdog is armed only
\* if the control marker reads back as the rev
tick_save ==
    /\ tpc = "save"
    /\ \E outcome \in SaveOutcomes :
          /\ tfs' = save_reboot_rev(tfs, Strip(tdoc.rev), outcome)
          /\ tpc' = IF get_last_reboot_rev(tfs') = Strip(tdoc.rev)
                     THEN "wdt" ELSE "app"
    /\ UNCHANGED <<tdoc, tlink, tstatus, tnow, last_poll_ms, tsince, tcause>>
    /\ UNCHANGED <<evars, dvars, rvars, mvars>>

\* machine.WDT(timeout=1000) and the loop that waits for it: the reset
tick_watchdog ==
    /\ tpc = "wdt"
    /\ PollReboot("poll")
    /\ UNCHANGED <<tfs, tdoc>>
    /\ UNCHANGED <<evars, dvars, rvars, mvars>>

\* the boot up to the running application, which takes time
PollBoot ==
    /\ tpc = "boot"
    /\ tpc' = "app"
    /\ tnow' \in {1, 2}
    /\ UNCHANGED <<tfs, tdoc, tlink, tstatus, last_poll_ms, tsince, tcause>>
    /\ UNCHANGED <<evars, dvars, rvars, mvars>>

\* time passes between two calls of tick; the counter wraps to 0
ClockAdvance ==
    /\ tpc = "app"
    /\ tsince < MaxSince
    /\ tnow' = (tnow + 1) % TICKS_PERIOD
    /\ tsince' = tsince + 1
    /\ UNCHANGED <<tfs, tdoc, tlink, tpc, tstatus, last_poll_ms, tcause>>
    /\ UNCHANGED <<evars, dvars, rvars, mvars>>

\* the application's connect_wifi brings the link up, or the link drops
PollLinkChange ==
    /\ tpc = "app"
    /\ tlink' = ~tlink
    /\ UNCHANGED <<tfs, tdoc, tpc, tstatus, tnow, last_poll_ms, tsince, tcause>>
    /\ UNCHANGED <<evars, dvars, rvars, mvars>>

\* the power is cut and restored
PollPowerLoss ==
    /\ tpc # "boot"
    /\ PollReboot("power")
    /\ UNCHANGED <<tfs, tdoc>>
    /\ UNCHANGED <<evars, dvars, rvars, mvars>>

PollNext ==
    \/ tick_start
    \/ tick_fetch
    \/ tick_save
    \/ tick_watchdog
    \/ PollBoot
    \/ ClockAdvance
    \/ PollLinkChange
    \/ PollPowerLoss

PollSpec == PollInit /\ [][PollNext]_vars

\* ------------------------------------------------ control marker: actions
DigitChar == <<"0", "1", "2", "3", "4", "5", "6", "7", "8", "9">>

\* str(h) for a non-negative integer: its decimal digits
RECURSIVE IntToStr(_)
IntToStr(n) ==
    IF n < 10 THEN <<DigitChar[n + 1]>>
    ELSE Append(IntToStr(n \div 10), DigitChar[(n % 10) + 1])

IsDecimal(s) == s # <<>> /\ \A i \in DOMAIN s : \E d \in 0..9 : DigitChar[d + 1] = s[i]

DigitValue(c) == CHOOSE d \in 0..9 : DigitChar[d + 1] = c

\* int(txt) for decimal text
RECURSIVE StrToInt(_)
StrToInt(s) ==
    IF s = <<>> THEN 0
    ELSE 10 * StrToInt(SubSeq(s, 1, Len(s) - 1)) + DigitValue(s[Len(s)])

\* _load_last_control_hash(): None when the file cannot be opened or holds
\* nothing but whitespace, else int() of the stripped text; the ValueError of
\* int() on text that is not a number is not caught
load_last_control_hash(f) ==
    IF f[CONTROL_HASH_FILE] = Absent THEN [kind |-> "none", val |-> 0]
    ELSE IF Strip(f[CONTROL_HASH_FILE]) = <<>> THEN [kind |-> "none", val |-> 0]
    ELSE IF IsDecimal(Strip(f[CONTROL_HASH_FILE]))
    THEN [kind |-> "int", val |-> StrToInt(Strip(f[CONTROL_HASH_FILE]))]
    ELSE [kind |-> "raised", val |-> 0]

MarkerInit ==
    /\ mfs = [f \in Files |-> IF f = APP_FILE THEN OldContent ELSE Absent]
    /\ mloaded = NotLoaded
    /\ mlast = [kind |-> "none", val |-> 0]
    /\ EngineIdle
    /\ DeviceIdle
    /\ RequestIdle
    /\ PollIdle

\* _save_last_control_hash(h): open(CONTROL_HASH_FILE, "w"), f.write(str(h));
\* an OSError is printed
save_last_control_hash ==
    /\ \E h \in Hashes, outcome \in {"saved", "open_failed", "write_failed"} :
          IF outcome = "open_failed"
          THEN UNCHANGED <<mfs, mlast>>
          ELSE IF outcome = "write_failed"
          THEN /\ mfs' = [mfs EXCEPT ![CONTROL_HASH_FILE] = Empty]
               /\ mlast' = [kind |-> "empty", val |-> 0]
          ELSE /\ mfs' = [mfs EXCEPT ![CONTROL_HASH_FILE] = IntToStr(h)]
               /\ mlast' = [kind |-> "hash", val |-> h]
    /\ mloaded' = NotLoaded
    /\ UNCHANGED <<evars, dvars, rvars, tvars>>

\* control_poll._save_reboot_rev(rev) on the same file
marker_save_reboot_rev ==
    /\ \E rev \in MarkerRevs, outcome \in SaveOutcomes :
          /\ mfs' = save_reboot_rev(mfs, rev, outcome)
          /\ mlast' = IF outcome = "open1_failed" THEN mlast
                      ELSE IF outcome = "write1_failed"
                      THEN [kind |-> "empty", val |-> 0]
                      ELSE [kind |-> "rev", val |-> 0]
    /\ mloaded' = NotLoaded
    /\ UNCHANGED <<evars, dvars, rvars, tvars>>

\* a call of _load_last_control_hash()
load_marker ==
    /\ mloaded' = load_last_control_hash(mfs)
    /\ UNCHANGED <<mfs, mlast>>
    /\ UNCHANGED <<evars, dvars, rvars, tvars>>

MarkerNext ==
    \/ save_last_control_hash
    \/ marker_save_reboot_rev
    \/ load_marker

MarkerSpec == MarkerInit /\ [][MarkerNext]_vars

\* ------------------------------------------------------------ properties
\* positions of perform_update between the version test and the version write
InAttempt == pc \in {"entry", "dl_open", "dl_write", "save", "save_write"}

\* an entry of the run in progress failed (bad entry, bad status, exception)
Failed == \E i \in DOMAIN log : log[i].op = "fail"

\* a reset the control channel asked for
ControlCauses == {"remote_reboot", "force_update", "poll_reboot"}

\* the step is a power loss, not something the engine did
PowerLoss == pc' = "boot" /\ bootCause' = "power" /\ fs' = fs

FetchOnly == <<Ev("fetch", "versions.json")>>

IsWrite(e) == e.op = "write"

\* the manifest in hand lists no protected target
NoProtectedListed(vd) ==
    vd.files # NotAList /\ \A k \in DOMAIN vd.files : vd.files[k] \notin ProtectedSet

\* the run in progress ended at an entry that was malformed or whose request
\* failed (bad status, exception), before that entry's target was opened
RequestFailed ==
    /\ Failed
    /\ log[Len(log)].op = "fail"
    /\ Len(log) >= 2 => log[Len(log) - 1].op # "open"

\* C1: no partial swap. When perform_update returns because an entry was
\* malformed or its download request failed, every target holds what it held
\* before the attempt (stated for the unprotected targets, which the engine
\* is meant to replace).
C1_NoPartialSwap ==
    (pc = "returned" /\ result = "false" /\ RequestFailed)
        => \A t \in Targets \ ProtectedSet : fs[t] = pre[t]

\* C2: protected set. The engine never requests, opens or writes a target of
\* the protected set, whatever the manifest lists.
C2_ProtectedNeverDownloaded ==
    \A i \in DOMAIN log :
        log[i].op \in {"get", "open", "write"} => log[i].file \notin ProtectedSet

\* C3: LocalVersion invariant. In every state the version marker is absent,
\* reads as "0.0.0", or holds the version of the last completed update.
C3_LocalVersionIsLastCompleted ==
    \/ fs[LOCAL_VERSION_FILE] = Absent
    \/ Strip(fs[LOCAL_VERSION_FILE]) = <<>>
    \/ fs[LOCAL_VERSION_FILE] = completed

\* C4: atomicity of swap. At every instant of an engine run each unprotected
\* target holds a complete copy, the old content or the new one (the engine
\* creates no backup path, so the target itself is the only place to look).
C4_AlwaysACompleteCopy ==
    \A t \in Targets \ ProtectedSet :
        pc \notin {"boot", "app"} => fs[t] \in {pre[t], NewContent}

\* C5: control loop-prevention. Once a control action has fired for the
\* control document, no later poll of that document fires an action.
C5_FiresOnce ==
    [][fired => ~(pc = "app" /\ pc' = "boot" /\ bootCause' \in ControlCauses)]_evars

\* C6: idempotent convergence. The engine run that follows a completed update
\* against the same manifest finds the version matching (stated for manifests
\* that list no protected target).
C6_SecondRunUpToDate ==
    (pc = "compare" /\ bootCause = "update" /\ vers_data = manifest
        /\ NoProtectedListed(vers_data))
        => remote_version(vers_data) = load_local_version(fs)

C9_VersionUnchangedUntilCommit ==
    (InAttempt /\ NoProtectedListed(vers_data))
        => load_local_version(fs) = load_local_version(pre)

\* C10: force flag or version mismatch implies update. With a files list to
\* work on, the engine starts downloading whenever a force-update is pending
\* or the manifest version differs from the local one.
C10_ForceOrMismatchUpdates ==
    [][(pc = "compare" /\ ~NoFilesList(vers_data)
          /\ (forcePending \/ remote_version(vers_data) # load_local_version(fs)))
        => (pc' = "entry" \/ PowerLoss)]_evars

C12_MarkerPersistedBeforeAction ==
    [][(pc = "app" /\ pc' = "boot" /\ bootCause' \in ControlCauses)
        => /\ fs'[CONTROL_HASH_FILE] # Absent
           /\ Strip(fs'[CONTROL_HASH_FILE]) = Strip(control.rev)]_evars

C15_FetchFailureRunsApp ==
    /\ [][pc = "fetch"
           => \/ pc' = "compare" /\ vers_data' = manifest /\ fs' = fs
              \/ /\ pc' = "app" /\ entered' = "no_manifest"
                 /\ vers_data' = NoData /\ fs' = fs /\ bootCause' = bootCause
              \/ PowerLoss]_evars
    /\ [](entered = "no_manifest" => pc = "app")

\* the application runs after a failed fetch although the manifest on the
\* host names another version than the local one
C15_Witness ==
    /\ pc = "app"
    /\ entered = "no_manifest"
    /\ remote_version(manifest) # load_local_version(fs)
    /\ ~NoFilesList(manifest)
    /\ fs = pre

IsGet(e) == e.op = "get"
IsFail(e) == e.op = "fail"

\* C16: a failed download aborts the attempt and main goes on to the
\* application. When an entry fails, perform_update returns False at once:
\* the failure is the last thing the run did, it is the only failure, no entry
\* after the failing one was requested, save_local_version did not run, and
\* the next step is run_app_main with no reset.
C16_FailedDownloadAborts ==
    /\ [](Failed => /\ pc = "returned" /\ result = "false"
                    /\ log[Len(log)].op = "fail"
                    /\ Len(SelectSeq(log, IsFail)) = 1
                    /\ Len(SelectSeq(log, IsGet)) <= idx
                    /\ \A i \in DOMAIN log : log[i].op \notin {"save_open", "save_write"})
    /\ [][(pc = "returned" /\ result = "false")
           => \/ pc' = "app" /\ entered' = "returned" /\ fs' = fs
              \/ PowerLoss]_evars

\* the first of two entries failed at its request and perform_update returned
C16_Witness ==
    /\ pc = "returned"
    /\ result = "false"
    /\ RequestFailed
    /\ idx = 1
    /\ Len(vers_data.files) = 2
    /\ vers_data.files[2] # BadEntry

\* C14: the self-update stager. On every boot, before anything else, a staged
\* engine is applied: the step taken from the boot with a staged file present
\* puts it in place of the engine file, keeps the previous engine under
\* another name, and resets the device.
C14_StagerRunsFirst ==
    [][(dpc = "boot" /\ dfs[STAGED_FILE] # Absent)
        => /\ dfs'[ENGINE_FILE] = dfs[STAGED_FILE]
           /\ dfs'[STAGED_FILE] = Absent
           /\ \E f \in DevFiles \ {ENGINE_FILE} : dfs'[f] = dfs[ENGINE_FILE]
           /\ dpc' = "boot"]_dvars

\* C17: not connected is handled like fetch failed. While main has no
\* connection (no configuration, or connect_wifi still waiting or timed out)
\* no network operation has been issued; the fetch, the update and its
\* downloads run with the station connected only; the step that gives up on
\* the connection changes no file, resets nothing and leads to run_app_main
\* (under bootloader.new.py, with config.py missing, to the configuration
\* portal); and in the application no step taken with the station down issues
\* a network operation.
C17_NotConnectedSkips ==
    /\ [](dpc \in {"config", "connect"} => (netops = {} /\ ~sta))
    /\ [](dpc \in {"fetch", "update", "stalled"} => sta)
    /\ []((dpc = "run" /\ ~sta) => netops = {})
    /\ [][(dpc \in {"config", "connect"} /\ dpc' \notin {"connect", "fetch"})
           => \/ dpc' = "run" /\ ~sta' /\ dfs' = dfs /\ netops' = {}
              \/ /\ dpc' = "portal" /\ dpc = "config" /\ dfs[ENGINE_FILE] = EngineV2
                 /\ ~sta' /\ dfs' = dfs /\ netops' = {}
              \/ dpc' = "boot" /\ dcause' = "power"]_dvars
    /\ [][(dpc = "app" /\ ~sta) => netops' \subseteq netops]_dvars

\* connect_wifi timed out and main went on to run_app_main
C17_Witness ==
    /\ dpc = "run"
    /\ dfs[ENGINE_FILE] = EngineV1
    /\ ~sta
    /\ elapsed = MaxConnectPolls
    /\ netops = {}

\* C18 as stated: an identity file that exists is left as it is and its
\* content returned; the call goes on to write only when the file is absent.
C18_ExistingFileKept ==
    [][(dpc = "app" /\ dpc' \in {"cmd_fetch", "id_open"}
          /\ dfs[DEVICE_ID_FILE] # Absent)
        => (dpc' = "cmd_fetch" /\ dev_id' = Strip(dfs[DEVICE_ID_FILE]))]_dvars

\* C18, amended: GetOrCreateId never overwrites an existing ID. A file that
\* holds an ID (anything but whitespace) is left as it is and the call returns
\* that ID, stripped; the file is written only by a call that found it absent
\* or blank, and only with the derived ID; and every call returns what the
\* call before it returned.
C18_ExistingIdKept ==
    /\ [][(dpc = "app" /\ dpc' \in {"cmd_fetch", "id_open"} /\ HasId(dfs))
           => (dpc' = "cmd_fetch" /\ dev_id' = Strip(dfs[DEVICE_ID_FILE])
               /\ dfs' = dfs)]_dvars
    /\ [][dfs'[DEVICE_ID_FILE] # dfs[DEVICE_ID_FILE]
           => (dpc \in {"id_open", "id_write"} /\ ~HasId(dfs)
               /\ dfs'[DEVICE_ID_FILE] \in {Empty, hwid})]_dvars
    /\ [][dev_id # NoId => dev_id' = dev_id]_dvars

\* a manually assigned ID was returned and is still in the file
C18_Witness ==
    /\ dpc = "cmd_fetch"
    /\ dfs[DEVICE_ID_FILE] = <<"1">>
    /\ dev_id = <<"1">>

\* C19: the watchdog backstop. In the connect phase, the manifest fetch and the
\* download loop the code always has a step to take (progress, giving the
\* phase up, or a reset): the device is never left in a call that does not
\* return with nothing armed to end it.
C19_NeverStuck ==
    dpc \in {"connect", "fetch", "update", "stalled"} => ENABLED DevProgramNext

C21_MarkerOldOrNew ==
    (pc \in {"save_write", "reset"} /\ NoProtectedListed(vers_data))
        => fs[LOCAL_VERSION_FILE] \in {pre[LOCAL_VERSION_FILE], remote_version(vers_data)}

\* C22: network teardown precedes reset. Whenever the engine or the control
\* channel resets the device (after a committed update, on a remote reboot or
\* force-update, on a polled reboot), the station interface has been
\* disconnected before the reset is issued.
C22_TeardownBeforeReset ==
    [][(dpc # "boot" /\ dpc' = "boot" /\ dcause' \in {"update", "remote", "force", "poll"})
        => ~sta]_dvars

\* C23: default target. A file downloaded for an entry that names no target is
\* installed at the last segment of its remote path ("lib/foo.py" installs to
\* "foo.py"); an entry with a target is installed at that target.
C23_DefaultTargetIsLastSegment ==
    rinstalled # NotInstalled
        => rinstalled = IF rentry.target = Missing
                        THEN <<rentry.path[Len(rentry.path)]>>
                        ELSE rentry.target

\* C24: the static token on every request. The manifest request and the file
\* download request both carry the Authorization header built from the token
\* when a token is provisioned, and carry no such header when none is.
C24_TokenOnEveryRequest ==
    rreq # NoRequest
        => SentHeaders(rreq.headers)
             = IF rtoken # NoToken THEN {AuthHeader(rtoken)} ELSE {}

\* C25: no overlap between an update attempt and the display application. The
\* application is entered only once the engine's pass is over (no config or no
\* link, no manifest, or perform_update returned), and while the application
\* runs no target is downloaded and the version marker is not written until
\* the next boot (a force-update may remove the marker as it resets).
C25_NoEngineWorkUnderApp ==
    /\ [][(pc # "app" /\ pc' = "app") => pc \in {"boot", "fetch", "returned"}]_evars
    /\ [][pc = "app"
           => /\ fs'[APP_FILE] = fs[APP_FILE]
              /\ fs'[LOCAL_VERSION_FILE] \in {fs[LOCAL_VERSION_FILE], Absent}]_evars

\* the step is the open, or the write, of the identity file failing
IdOpenFailed == dpc = "id_open" /\ dpc' \notin {"id_open", "id_write", "boot"}

IdWriteFailed == dpc = "id_write" /\ dpc' \notin {"id_write", "boot"} /\ dfs' = dfs

\* C26 as worded: when persisting a newly generated ID fails,
\* get_or_create_device_id returns the generated ID, the boot continues, and
\* no identity file is left behind: the file is absent afterwards unless the
\* failed call found one and never opened it.
C26_NoFileLeftBehind ==
    [][(IdOpenFailed \/ IdWriteFailed)
        => /\ dpc' = "cmd_fetch"
           /\ dev_id' = hwid
           /\ dfs'[DEVICE_ID_FILE] = Absent \/ (IdOpenFailed /\ dfs' = dfs)]_dvars

\* C26: failure to persist a newly generated ID is non-fatal. When the open or
\* the write of the identity file fails, get_or_create_device_id returns the
\* generated ID without raising and check_remote_commands goes on with it;
\* no reset follows from the failure, and the file is left holding no ID (it
\* is as the call found it, or empty).
C26_PersistFailureNonFatal ==
    [][(IdOpenFailed \/ IdWriteFailed)
        => /\ dpc' = "cmd_fetch"
           /\ dev_id' = hwid
           /\ dcause' = dcause
           /\ ~HasId(dfs')
           /\ dfs'[DEVICE_ID_FILE] \in {dfs[DEVICE_ID_FILE], Empty}]_dvars

\* the open of the identity file failed: the call returned the generated ID
\* and no file exists
C26_Witness ==
    /\ dpc = "cmd_fetch"
    /\ dev_id = hwid
    /\ dfs[DEVICE_ID_FILE] = Absent

\* positions of bootloader.main and of what it calls before run_app_main
MainPositions ==
    {"boot", "fetch", "compare", "entry", "dl_open", "dl_write", "save",
     "save_write", "reset", "returned"}

\* C27: every execution of bootloader.main ends in a reset or in
\* run_app_main. From any position of main, whatever the configuration, the
\* link, the fetch result and the manifest (a JSON value that is not an
\* object included), the next step stays in main, resets the device or
\* enters run_app_main; main never ends by raising or returning without one.
C27_MainEndsInResetOrApp ==
    [][(pc \in MainPositions) => (pc' \in MainPositions \cup {"app"})]_evars

\* C28: control_poll.tick forces a reset only under its full guard. The fetch
\* is made only with the station connected; the rev is saved only after a
\* fetch with status 200 of a document that lists the device in reboot_ids
\* under a non-empty rev other than the stored marker; the watchdog is armed
\* only after that save, with the marker reading back as the rev; and in every
\* other case tick returns with both marker files as they were.
C28_ResetOnlyUnderGuard ==
    /\ [][(tpc' = "fetch") => (tpc = "app" /\ tlink)]_tvars
    /\ [][(tpc' = "save")
           => /\ tpc = "fetch"
              /\ tstatus' = 200
              /\ tdoc.reboot
              /\ Strip(tdoc.rev) # <<>>
              /\ Strip(tdoc.rev) # get_last_reboot_rev(tfs)]_tvars
    /\ [][(tpc' = "wdt")
           => (tpc = "save" /\ get_last_reboot_rev(tfs') = Strip(tdoc.rev))]_tvars
    /\ [][(tpc' = "boot" /\ tcause' = "poll") => tpc = "wdt"]_tvars
    /\ [][tfs' # tfs => tpc = "save"]_tvars

\* tick has reset the device, the control marker holding the document's rev
C28_Witness ==
    /\ tpc = "boot"
    /\ tcause = "poll"
    /\ tdoc.reboot
    /\ get_last_reboot_rev(tfs) = Strip(tdoc.rev)

\* C29: version marker round trip. After save_local_version(v) went through
\* for a non-empty v without leading or trailing whitespace,
\* load_local_version() returns v; and whenever the marker is absent
\* (unreadable) or empty, load_local_version() returns "0.0.0".
C29_VersionRoundTrip ==
    /\ (pc = "reset" /\ Saved(log)
          /\ remote_version(vers_data) # <<>>
          /\ Strip(remote_version(vers_data)) = remote_version(vers_data))
        => load_local_version(fs) = remote_version(vers_data)
    /\ fs[LOCAL_VERSION_FILE] \in {Absent, Empty}
        => load_local_version(fs) = DefaultVersion

\* version "1" was saved over a marker that did not hold it, and reads back
C29_Witness ==
    /\ pc = "reset"
    /\ Saved(log)
    /\ pre[LOCAL_VERSION_FILE] = Absent
    /\ remote_version(vers_data) = <<"1">>
    /\ load_local_version(fs) = <<"1">>

\* C30: a manifest whose version differs from the local one but whose files
\* list is missing, empty or not a list. perform_update returns False having
\* downloaded nothing and written nothing, the download loop, the version
\* write and the reset are never reached with such a manifest, and the
\* versions still differ when it returns, so the next boot finds the same.
C30_NoFilesListFails ==
    /\ (pc \notin {"compare", "raised"} /\ vers_data # NoData
          /\ NoFilesList(vers_data) /\ ~UpToDate(vers_data, fs))
        => /\ pc = "returned"
           /\ result = "false"
           /\ fs = pre
           /\ log = FetchOnly
    /\ pc \in {"entry", "dl_open", "dl_write", "save", "save_write", "reset"}
        => ~NoFilesList(vers_data)

\* perform_update has returned False for a manifest of another version with
\* an empty files list, with nothing but the manifest fetch behind it
C30_Witness ==
    /\ pc = "returned"
    /\ result = "false"
    /\ vers_data.files = <<>>
    /\ ~UpToDate(vers_data, fs)
    /\ log = FetchOnly

\* C31: the stager fires at most once per staged file. The reset of
\* apply_staged_bootloader_if_present leaves the staged file's content in the
\* engine file and no staged file; the boot that follows that reset goes on to
\* the configuration with every file as it was, not into another reset; and a
\* boot that finds no staged file changes no file and resets nothing.
C31_StagerFiresOnce ==
    /\ [][(dpc = "boot" /\ dfs[STAGED_FILE] # Absent
             /\ dpc' = "boot" /\ dcause' = "stager")
           => /\ dfs'[STAGED_FILE] = Absent
              /\ dfs'[ENGINE_FILE] = dfs[STAGED_FILE]]_dvars
    /\ [][(dpc = "boot" /\ dcause = "stager")
           => (dpc' = "config" /\ dfs' = dfs /\ dcause' = dcause)]_dvars
    /\ [][(dpc = "boot" /\ dfs[STAGED_FILE] = Absent)
           => (dpc' = "config" /\ dfs' = dfs /\ dcause' = dcause)]_dvars

\* the stager has applied a staged engine that has a stager itself, and the
\* boot after its reset has gone past the stager
C31_Witness ==
    /\ dpc = "config"
    /\ dcause = "stager"
    /\ dfs[ENGINE_FILE] = EngineV2
    /\ dfs[STAGED_FILE] = Absent

\* C32: rate limiting of control_poll.tick. A control fetch is issued only by
\* the first due tick after a boot or at least CONTROL_POLL_MS after the due
\* tick before it, whether that tick fetched or found the station down: there
\* is at most one fetch per interval.
C32_OneFetchPerInterval ==
    [][(tpc' = "fetch") => (tpc = "app" /\ tsince >= CONTROL_POLL_MS)]_tvars

\* the step is a power loss, not something the code did
DevPower == dpc' = "boot" /\ dcause' = "power" /\ dfs' = dfs

\* C33 as worded: check_remote_commands is side-effect free on fetch failure.
\* Whether the fetch fails is not known before it is made, so no step of the
\* call up to the return from a failed fetch writes or removes a file or
\* resets the device.
C33_NoFileTouchedOnFailure ==
    [][(dpc \in {"id_open", "id_write", "cmd_fetch", "cmd_failed"} /\ ~DevPower)
        => (dfs' = dfs /\ dpc' # "boot")]_dvars

\* C33: check_remote_commands on fetch failure. After a status other than
\* 200, an exception or an unparsable body the call returns to the
\* application: no reset, no file removed or written. Before the fetch the
\* call writes nothing but the device identity file (when that held no ID);
\* the version marker and the engine files are as they were when the call
\* returns.
C33_FetchFailureKeepsFiles ==
    /\ [][(dpc = "cmd_failed" /\ ~DevPower)
           => (dpc' = "app" /\ dfs' = dfs /\ dcause' = dcause)]_dvars
    /\ [][(dpc \in {"id_open", "id_write", "cmd_fetch"} /\ ~DevPower)
           => /\ dpc' # "boot"
              /\ \A f \in DevFiles \ {DEVICE_ID_FILE} : dfs'[f] = dfs[f]]_dvars
    /\ [][(dpc = "cmd_fetch") => dfs' = dfs]_dvars

\* the fetch of a call that generated the device ID has failed; the version
\* marker is in place
C33_Witness ==
    /\ dpc = "cmd_failed"
    /\ dfs[LOCAL_VERSION_FILE] = <<"1">>
    /\ dfs[DEVICE_ID_FILE] = hwid
    /\ dev_id = hwid

\* C34: consistency of the shared control marker. Whatever the two writers
\* have left in last_control_hash.txt, _load_last_control_hash returns
\* without raising; what it returns is None or an integer, and after
\* _save_last_control_hash(h) went through it is h.
C34_LoadNoneOrSavedHash ==
    /\ mloaded.kind \in {"unset", "none", "int"}
    /\ (mloaded.kind # "unset" /\ mlast.kind = "hash")
        => (mloaded.kind = "int" /\ mloaded.val = mlast.val)
====
